---- MODULE Spec2Model ----
(***************************************************************************)
(* Model of extract_clipboard.py (vaultclip): the keyed-archive string     *)
(* extractor extract_clipboard_text and the directory scan of main.        *)
(*                                                                         *)
(* Python values decoded by plistlib are records [t, i, s]:                *)
(*   t = "str"   s is the string, a sequence of one-character strings      *)
(*   t = "int"   i is the integer                                          *)
(*   t = "uid"   i is plistlib.UID(i).data                                 *)
(*   t = "float" i is twice the float (halves), so 5 stands for 2.5        *)
(*   t = "bool"  i is 1 for True, 0 for False                              *)
(*   t = "dict"  i is the number of keys of the mapping                    *)
(* Elements of the $objects array carry two more fields: has (the mapping  *)
(* has a stringValue key) and sv (that key's value).                       *)
(* Python list indices are 0-based; TLA+ sequences are 1-based, so Python  *)
(* objects[k] is objects[k + 1] here.                                      *)
(***************************************************************************)
EXTENDS Integers, Sequences, FiniteSets, TLC

VARIABLES
    buffer,      \* extract_clipboard_text: the file handed to the decoder
    decoded,     \* extract_clipboard_text: its outcome, or Pending
    pc,          \* main: position of the run
    dirState,    \* main: what clipy_dir is on disk
    listing,     \* main: the directory's entries, in listing order
    data_files,  \* main: the list glob returned (entry numbers), sorted in place
    i,           \* main: enumerate index of the block printed last
    out,         \* main: lines written to standard output so far
    statted,     \* main: entries os.path.getmtime was called on
    opened       \* main: entries open() was called on

vars == <<buffer, decoded, pc, dirState, listing, data_files, i, out, statted, opened>>

----------------------------------------------------------------------------
(* Bounds of the model *)

MaxObjects == 3
MaxStr == 2
MaxFiles == 2
MaxMtime == 3
MaxOver == 1

(* Display limit of main *)
DisplayMax == 200

----------------------------------------------------------------------------
(* Python values *)

PyStr(s) == [t |-> "str", i |-> 0, s |-> s]
PyInt(n) == [t |-> "int", i |-> n, s |-> <<>>]
PyUid(n) == [t |-> "uid", i |-> n, s |-> <<>>]
PyFloat(h) == [t |-> "float", i |-> h, s |-> <<>>]
PyBool(b) == [t |-> "bool", i |-> b, s |-> <<>>]
PyDict(n) == [t |-> "dict", i |-> n, s |-> <<>>]
NoLeaf == [t |-> "none", i |-> 0, s |-> <<>>]

Elem(v) == [t |-> v.t, i |-> v.i, s |-> v.s, has |-> FALSE, sv |-> NoLeaf]
Mapping(has, sv) ==
    [t |-> "dict", i |-> IF has THEN 1 ELSE 0, s |-> <<>>, has |-> has, sv |-> sv]

Digits == <<"0", "1", "2", "3", "4", "5", "6", "7", "8", "9">>

IsDigit(c) == \E k \in 1..10 : Digits[k] = c

DigitVal(c) == (CHOOSE k \in 1..10 : Digits[k] = c) - 1

RECURSIVE ParseNat(_)
ParseNat(s) ==
    IF Len(s) = 0 THEN 0
    ELSE 10 * ParseNat(SubSeq(s, 1, Len(s) - 1)) + DigitVal(s[Len(s)])

AllDigits(s) == Len(s) > 0 /\ \A k \in 1..Len(s) : IsDigit(s[k])

(* int(x) of line 49: the integer, or the exception int() raises.  Strings  *)
(* are decimal digits with an optional leading minus sign.                  *)
IntOf(v) ==
    CASE v.t \in {"int", "bool"} -> [ok |-> TRUE, v |-> v.i, err |-> ""]
      [] v.t = "float" ->
            [ok |-> TRUE,
             v |-> IF v.i >= 0 THEN v.i \div 2 ELSE -((-v.i) \div 2),
             err |-> ""]
      [] v.t = "str" ->
            IF AllDigits(v.s)
            THEN [ok |-> TRUE, v |-> ParseNat(v.s), err |-> ""]
            ELSE IF Len(v.s) > 1 /\ v.s[1] = "-" /\ AllDigits(Tail(v.s))
            THEN [ok |-> TRUE, v |-> -ParseNat(Tail(v.s)), err |-> ""]
            ELSE [ok |-> FALSE, v |-> 0, err |-> "ValueError"]
      [] OTHER -> [ok |-> FALSE, v |-> 0, err |-> "TypeError"]

(* Python truth value of a decoded value: the test of line 41 *)
TruthyNotNone(v) == TRUE

Truthy(v) ==
    CASE v.t = "uid" -> TRUE
      [] v.t \in {"int", "float", "bool", "dict"} -> v.i # 0
      [] v.t = "str" -> Len(v.s) > 0
      [] OTHER -> FALSE

(* Lines 46-49: the index a stringValue value stands for *)
UidIndex(v) ==
    IF v.t = "uid" THEN [ok |-> TRUE, v |-> v.i, err |-> ""]
    ELSE IntOf(v)

(* objects[uid_index] of line 53, with Python's negative indexing *)
ListGetPrev(objects, idx) ==
    LET n == Len(objects)
        k == idx - 1
    IN  IF 0 <= k /\ k < n THEN [ok |-> TRUE, pos |-> k, v |-> objects[k + 1]]
        ELSE IF -n <= k /\ k < 0
        THEN [ok |-> TRUE, pos |-> n + k, v |-> objects[n + k + 1]]
        ELSE [ok |-> FALSE, pos |-> 0, v |-> Elem(NoLeaf)]

ListGet(objects, idx) ==
    LET n == Len(objects)
    IN  IF 0 <= idx /\ idx < n
        THEN [ok |-> TRUE, pos |-> idx, v |-> objects[idx + 1]]
        ELSE IF -n <= idx /\ idx < 0
        THEN [ok |-> TRUE, pos |-> n + idx, v |-> objects[n + idx + 1]]
        ELSE [ok |-> FALSE, pos |-> 0, v |-> Elem(NoLeaf)]

(* Outcomes of extract_clipboard_text: the returned value (ok: a str,      *)
(* otherwise None), the exception the except clause printed ("" if none),  *)
(* and the Python indices of $objects that were read.                      *)
Found(s, reads) == [ok |-> TRUE, s |-> s, err |-> "", reads |-> reads]
NoResult(reads) == [ok |-> FALSE, s |-> <<>>, err |-> "", reads |-> reads]
Raised(e, reads) == [ok |-> FALSE, s |-> <<>>, err |-> e, reads |-> reads]
Pending == [ok |-> FALSE, s |-> <<>>, err |-> "pending", reads |-> {}]

(* A file: kind "unreadable" (open raises), "corrupt" (plistlib.load       *)
(* raises), "toplist" (the top-level object is no mapping) or "dict";      *)
(* a mapping has or lacks $objects, which is a list or (isList false) a    *)
(* number.                                                                 *)
File(kind, hasObjects, isList, objects) ==
    [kind |-> kind, hasObjects |-> hasObjects, isList |-> isList, objects |-> objects]

extract_clipboard_text(f) ==
    IF f.kind = "unreadable" THEN Raised("OSError", {})
    ELSE IF f.kind = "corrupt" THEN Raised("InvalidFileException", {})
    ELSE IF f.kind = "toplist" THEN Raised("AttributeError", {})
    ELSE IF f.hasObjects /\ ~f.isList THEN Raised("TypeError", {})
    ELSE
    LET objects == IF f.hasObjects THEN f.objects ELSE <<>>
    IN  IF Len(objects) < 2 THEN NoResult({})
        ELSE
        LET main_obj == objects[2]
        IN  IF main_obj.t # "dict" THEN NoResult({1})
            ELSE IF ~main_obj.has THEN NoResult({1})
            ELSE IF ~Truthy(main_obj.sv) THEN NoResult({1})
            ELSE
            LET u == UidIndex(main_obj.sv)
            IN  IF ~u.ok THEN Raised(u.err, {1})
                ELSE IF u.v < Len(objects)
                THEN LET e == ListGet(objects, u.v)
                     IN  IF ~e.ok THEN Raised("IndexError", {1})
                         ELSE IF e.v.t = "str" THEN Found(e.v.s, {1, e.pos})
                         ELSE NoResult({1, e.pos})
                ELSE NoResult({1})

----------------------------------------------------------------------------
(* Bounded input sets of the decoder *)

Alphabet == {"a", "1", "2", "-"}

RECURSIVE SeqsUpTo(_, _)
SeqsUpTo(S, n) ==
    IF n = 0 THEN {<<>>}
    ELSE LET shorter == SeqsUpTo(S, n - 1)
         IN  shorter \cup {Append(s, c) : s \in shorter, c \in S}

Strs == SeqsUpTo(Alphabet, MaxStr)

Leaves ==
    {PyStr(s) : s \in Strs}
    \cup {PyInt(n) : n \in -(MaxObjects + 1)..(MaxObjects + 1)}
    \cup {PyUid(n) : n \in 0..(MaxObjects + 1)}
    \cup {PyFloat(h) : h \in -(2 * MaxObjects + 2)..(2 * MaxObjects + 2)}
    \cup {PyBool(b) : b \in 0..1}
    \cup {PyDict(n) : n \in 0..1}

RootElems ==
    {Elem(v) : v \in Leaves}
    \cup {Mapping(FALSE, NoLeaf)}
    \cup {Mapping(TRUE, v) : v \in Leaves}

OtherElems ==
    {Elem(PyStr(<<>>)), Elem(PyStr(<<"a">>)), Elem(PyStr(<<"2", "a">>)), Elem(PyInt(7))}

RECURSIVE SeqsOfLen(_, _)
SeqsOfLen(S, n) ==
    IF n = 0 THEN {<<>>}
    ELSE {Append(s, c) : s \in SeqsOfLen(S, n - 1), c \in S}

(* $objects arrays of up to MaxObjects elements: any element at index 1,   *)
(* strings and a number elsewhere.                                         *)
ObjectArrays ==
    {<<>>}
    \cup {<<a>> : a \in OtherElems}
    \cup UNION {
        {<<a, r>> \o rest : a \in OtherElems, r \in RootElems,
                            rest \in SeqsOfLen(OtherElems, n - 2)}
        : n \in 2..MaxObjects}

Archives ==
    {File("unreadable", FALSE, FALSE, <<>>),
     File("corrupt", FALSE, FALSE, <<>>),
     File("toplist", FALSE, FALSE, <<>>),
     File("dict", FALSE, FALSE, <<>>),
     File("dict", TRUE, FALSE, <<>>)}
    \cup {File("dict", TRUE, TRUE, o) : o \in ObjectArrays}

NoFile == File("none", FALSE, FALSE, <<>>)

----------------------------------------------------------------------------
(* Output lines of main.  k names the print call, idx is the enumerate     *)
(* index i of the block, name the directory entry (its basename), n a      *)
(* number shown and s a text shown.                                        *)

Line(k, idx, name, n, s) == [k |-> k, idx |-> idx, name |-> name, n |-> n, s |-> s]

(* Lines 97-99 *)
Header(count) ==
    <<Line("reading", 0, 0, 0, <<>>),
      Line("found", 0, 0, count, <<>>),
      Line("rule", 0, 0, 0, <<>>)>>

(* Line 60: the except clause of extract_clipboard_text prints *)
ErrorLinesSilent(r, idx, e) == <<>>

ErrorLines(r, idx, e) ==
    IF r.err # "" THEN <<Line("error", idx, e, 0, <<>>)>> ELSE <<>>

(* Line 110: "if clipboard_text:" *)
HasTextNotNone(r) == r.ok

HasText(r) == r.ok /\ Len(r.s) > 0

(* Lines 112-114 *)
DisplayTextAtLimit(s) ==
    IF Len(s) >= DisplayMax THEN SubSeq(s, 1, DisplayMax) \o <<".", ".", ".">> ELSE s

DisplayText(s) ==
    IF Len(s) > DisplayMax THEN SubSeq(s, 1, DisplayMax) \o <<".", ".", ".">> ELSE s

(* Lines 106, 117: modification times are in half seconds here, and        *)
(* strftime('%Y-%m-%d %H:%M:%S') shows whole seconds.                      *)
FormatTime(mtime) == mtime \div 2

(* Lines 110-125: the block of one file *)
Block(idx, e, mtime, r) ==
    IF HasText(r)
    THEN <<Line("block", idx, e, 0, <<>>),
           Line("modified", idx, e, FormatTime(mtime), <<>>),
           Line("length", idx, e, Len(r.s), <<>>),
           Line("content", idx, e, 0, DisplayText(r.s)),
           Line("dash", idx, e, 0, <<>>)>>
    ELSE <<Line("block", idx, e, 0, <<>>),
           Line("modified", idx, e, FormatTime(mtime), <<>>),
           Line("could_not", idx, e, 0, <<>>),
           Line("dash", idx, e, 0, <<>>)>>

----------------------------------------------------------------------------
(* The directory.  An entry is a name in clipy_dir: matches (the name      *)
(* matches *.data), statok (os.path.getmtime succeeds; false for a         *)
(* dangling link), mtime and the file behind it.                           *)

Entry(matches, statok, mtime, file) ==
    [matches |-> matches, statok |-> statok, mtime |-> mtime, file |-> file]

(* Line 91: glob.glob, the matching entries in listing order *)
Glob(dir) == SelectSeq([k \in 1..Len(dir) |-> k], LAMBDA k : dir[k].matches)

(* Line 102: list.sort(key=get_file_timestamp, reverse=True) is stable:    *)
(* entries with equal times keep their order.                              *)
RECURSIVE InsertOldestFirst(_, _, _)
InsertOldestFirst(sorted, e, dir) ==
    IF sorted = <<>> THEN <<e>>
    ELSE IF dir[Head(sorted)].mtime <= dir[e].mtime
    THEN <<Head(sorted)>> \o InsertOldestFirst(Tail(sorted), e, dir)
    ELSE <<e>> \o sorted

RECURSIVE InsertNewestFirst(_, _, _)
InsertNewestFirst(sorted, e, dir) ==
    IF sorted = <<>> THEN <<e>>
    ELSE IF dir[Head(sorted)].mtime >= dir[e].mtime
    THEN <<Head(sorted)>> \o InsertNewestFirst(Tail(sorted), e, dir)
    ELSE <<e>> \o sorted

RECURSIVE SortNewestFirst(_, _)
SortNewestFirst(files, dir) ==
    IF files = <<>> THEN <<>>
    ELSE InsertNewestFirst(
             SortNewestFirst(SubSeq(files, 1, Len(files) - 1), dir),
             files[Len(files)], dir)

(* The entries the key function of the sort is called on: all of them, or  *)
(* those up to the first whose getmtime raises.                            *)
FirstStatFailure(files, dir) ==
    IF \E k \in 1..Len(files) : ~dir[files[k]].statok
    THEN CHOOSE k \in 1..Len(files) :
             /\ ~dir[files[k]].statok
             /\ \A j \in 1..(k - 1) : dir[files[j]].statok
    ELSE 0

----------------------------------------------------------------------------
(* Bounded input sets of main *)

Letters == <<"a", "b", "c">>

Text(n) == [k \in 1..n |-> Letters[(k % 3) + 1]]

TextLens == {0, 1} \cup ((DisplayMax - 1)..(DisplayMax + MaxOver))

Null == Elem(PyStr(<<"$", "n", "u", "l", "l">>))

Archive(sv, s) == File("dict", TRUE, TRUE, <<Null, Mapping(TRUE, sv), Elem(PyStr(s))>>)

Catalog ==
    {Archive(PyUid(2), Text(n)) : n \in TextLens}
    \cup {File("unreadable", FALSE, FALSE, <<>>),
          File("corrupt", FALSE, FALSE, <<>>),
          File("dict", TRUE, TRUE, <<Null, Mapping(FALSE, NoLeaf), Elem(PyStr(Text(2)))>>),
          Archive(PyUid(3), Text(2)),
          Archive(PyInt(-1), Text(2)),
          Archive(PyInt(-4), Text(2))}

Entries ==
    {Entry(FALSE, TRUE, 0, NoFile), Entry(TRUE, FALSE, 0, NoFile)}
    \cup {Entry(TRUE, TRUE, m, f) : m \in 1..MaxMtime, f \in Catalog}

Listings == UNION {[1..n -> Entries] : n \in 0..MaxFiles}

----------------------------------------------------------------------------
(* main *)

Init ==
    /\ dirState \in {"missing", "notdir", "dir"}
    /\ listing \in Listings
    /\ dirState # "dir" => listing = <<>>
    /\ pc = "start"
    /\ data_files = <<>>
    /\ i = 0
    /\ out = <<>>
    /\ statted = {}
    /\ opened = {}
    /\ buffer = NoFile
    /\ decoded = Pending

(* Lines 80-84 *)
DirMissing ==
    /\ pc = "start"
    /\ dirState = "missing"
    /\ out' = <<Line("error_not_found", 0, 0, 0, <<>>),
                Line("usage", 0, 0, 0, <<>>),
                Line("default_dir", 0, 0, 0, <<>>)>>
    /\ pc' = "done"
    /\ UNCHANGED <<buffer, decoded, dirState, listing, data_files, i, statted, opened>>

(* Lines 86-88 *)
NotADirectory ==
    /\ pc = "start"
    /\ dirState = "notdir"
    /\ out' = <<Line("error_not_dir", 0, 0, 0, <<>>)>>
    /\ pc' = "done"
    /\ UNCHANGED <<buffer, decoded, dirState, listing, data_files, i, statted, opened>>

(* Lines 91-95 *)
NoDataFiles ==
    /\ pc = "start"
    /\ dirState = "dir"
    /\ Glob(listing) = <<>>
    /\ out' = <<Line("no_files", 0, 0, 0, <<>>)>>
    /\ pc' = "done"
    /\ UNCHANGED <<buffer, decoded, dirState, listing, data_files, i, statted, opened>>

(* Lines 91-102, every getmtime of the sort succeeding *)
SortFiles ==
    /\ pc = "start"
    /\ dirState = "dir"
    /\ Glob(listing) # <<>>
    /\ FirstStatFailure(Glob(listing), listing) = 0
    /\ out' = Header(Len(Glob(listing)))
    /\ data_files' = SortNewestFirst(Glob(listing), listing)
    /\ statted' = {Glob(listing)[k] : k \in 1..Len(Glob(listing))}
    /\ pc' = "loop"
    /\ UNCHANGED <<buffer, decoded, dirState, listing, i, opened>>

(* Lines 91-102, a getmtime of the sort raising: nothing catches it and    *)
(* main ends with the exception.                                           *)
SortRaises ==
    /\ pc = "start"
    /\ dirState = "dir"
    /\ Glob(listing) # <<>>
    /\ FirstStatFailure(Glob(listing), listing) # 0
    /\ out' = Header(Len(Glob(listing)))
    /\ data_files' = Glob(listing)
    /\ statted' = {Glob(listing)[k] : k \in 1..FirstStatFailure(Glob(listing), listing)}
    /\ pc' = "crashed"
    /\ UNCHANGED <<buffer, decoded, dirState, listing, i, opened>>

(* Lines 104-125: one iteration of the loop *)
ProcessFile ==
    /\ pc = "loop"
    /\ i < Len(data_files)
    /\ LET e == data_files[i + 1]
           r == extract_clipboard_text(listing[e].file)
       IN  /\ buffer' = listing[e].file
           /\ decoded' = r
           /\ opened' = opened \cup {e}
           /\ out' = out \o ErrorLines(r, i + 1, e) \o Block(i + 1, e, listing[e].mtime, r)
    /\ i' = i + 1
    /\ pc' = IF i + 1 = Len(data_files) THEN "done" ELSE "loop"
    /\ UNCHANGED <<dirState, listing, data_files, statted>>

Next ==
    \/ DirMissing
    \/ NotADirectory
    \/ NoDataFiles
    \/ SortFiles
    \/ SortRaises
    \/ ProcessFile

Spec == Init /\ [][Next]_vars

----------------------------------------------------------------------------
(* The decoder applied to one archive *)

MainIdle ==
    /\ pc = "idle"
    /\ dirState = "none"
    /\ listing = <<>>
    /\ data_files = <<>>
    /\ i = 0
    /\ out = <<>>
    /\ statted = {}
    /\ opened = {}

ExtractInit ==
    /\ buffer \in Archives
    /\ decoded = Pending
    /\ MainIdle

Decode ==
    /\ pc = "idle"
    /\ decoded = Pending
    /\ decoded' = extract_clipboard_text(buffer)
    /\ UNCHANGED <<buffer, pc, dirState, listing, data_files, i, out, statted, opened>>

ExtractNext == Decode

ExtractSpec == ExtractInit /\ [][ExtractNext]_vars

----------------------------------------------------------------------------
(* Properties of extract_clipboard_text, checked under ExtractSpec *)

Objects == buffer.objects

HasRoot ==
    /\ buffer.kind = "dict"
    /\ buffer.hasObjects
    /\ buffer.isList
    /\ Len(Objects) >= 2

RootField ==
    /\ HasRoot
    /\ Objects[2].t = "dict"
    /\ Objects[2].has

Falsy(v) ==
    \/ v.t \in {"int", "float", "bool", "dict"} /\ v.i = 0
    \/ v.t = "str" /\ v.s = <<>>

ProperReference ==
    /\ RootField
    /\ Objects[2].sv.t = "uid"
    /\ Objects[2].sv.i < Len(Objects)
    /\ Objects[Objects[2].sv.i + 1].t = "str"

(* C1: an archive with at least two objects whose root mapping (index 1)   *)
(* holds stringValue as a UID with an index inside the array, the element  *)
(* there being a string: the decoder returns exactly that string, whole.   *)
C1_ReturnsReferencedString ==
    (decoded # Pending /\ ProperReference) =>
        /\ decoded.ok
        /\ decoded.s = Objects[Objects[2].sv.i + 1].s
        /\ decoded.err = ""

C1_Witness ==
    /\ decoded # Pending
    /\ ProperReference
    /\ Objects[2].sv.i = 2
    /\ Len(decoded.s) = 2

(* C2: a stringValue that denotes, as a UID or as a bare integer, an index *)
(* at or beyond the array length or below zero: the decoder returns no     *)
(* result, and never an element of the array for a negative index.         *)
C2_OutOfRangeGivesNoResult ==
    (/\ decoded # Pending
     /\ RootField
     /\ Objects[2].sv.t \in {"uid", "int"}
     /\ ~Falsy(Objects[2].sv)
     /\ (Objects[2].sv.i >= Len(Objects) \/ Objects[2].sv.i < 0))
        => ~decoded.ok

EarlyExit ==
    /\ buffer.kind = "dict"
    /\ \/ ~buffer.hasObjects
       \/ buffer.isList /\ Len(Objects) < 2
       \/ HasRoot /\ Objects[2].t # "dict"
       \/ HasRoot /\ Objects[2].t = "dict" /\ ~Objects[2].has
       \/ RootField /\ Falsy(Objects[2].sv)

(* C3: no $objects key, fewer than two objects, a root that is no mapping, *)
(* a missing stringValue or a falsy one: the decoder returns no result and *)
(* reads no element of the array other than index 1.                       *)
C3_EarlyExitsGiveNoResult ==
    (decoded # Pending /\ EarlyExit) =>
        /\ ~decoded.ok
        /\ decoded.err = ""
        /\ decoded.reads \subseteq {1}

C3_Witness ==
    /\ decoded # Pending
    /\ RootField
    /\ Objects[2].sv = PyInt(0)
    /\ Objects[1].t = "str"
    /\ Len(Objects[1].s) > 0
    /\ decoded.reads = {1}

(* C9: a stringValue that is neither a UID nor a bare integer (a numeric   *)
(* string, a float, a mapping) gives no result: it is not coerced to an    *)
(* index.                                                                  *)
C9_OtherTypesGiveNoResult ==
    (/\ decoded # Pending
     /\ RootField
     /\ Objects[2].sv.t \notin {"uid", "int"})
        => ~decoded.ok

----------------------------------------------------------------------------
(* Properties of main, checked under Spec *)

Ended == pc \in {"done", "crashed"}

Enumerated == {Glob(listing)[k] : k \in 1..Len(Glob(listing))}

DirectoryError ==
    \/ dirState \in {"missing", "notdir"}
    \/ Glob(listing) = <<>>

LinesOfKind(k) == SelectSeq(out, LAMBDA l : l.k = k)

LinesOfBlock(idx) == SelectSeq(out, LAMBDA l : l.idx = idx)

Kinds(lines) == [k \in 1..Len(lines) |-> lines[k].k]

Extracted(e) == extract_clipboard_text(listing[e].file)

(* C4: once the directory checks passed and N paths were enumerated, the   *)
(* run prints exactly N blocks numbered 1..N, one per enumerated file with *)
(* its Modified line, however a single file fails.                         *)
C4_EveryEnumeratedFileGetsABlock ==
    (Ended /\ ~DirectoryError) =>
        LET blocks == LinesOfKind("block")
            N == Len(Glob(listing))
        IN  /\ Len(blocks) = N
            /\ \A k \in 1..N : blocks[k].idx = k
            /\ {blocks[k].name : k \in 1..N} = Enumerated
            /\ Len(LinesOfKind("modified")) = N

(* C5: blocks appear newest first: of two enumerated files the one with    *)
(* the strictly larger modification time has the smaller index and is      *)
(* printed first.                                                          *)
C5_BlocksNewestFirst ==
    \A p, q \in 1..Len(out) :
        (/\ out[p].k = "block"
         /\ out[q].k = "block"
         /\ listing[out[p].name].mtime > listing[out[q].name].mtime)
            => (out[p].idx < out[q].idx /\ p < q)

C5_Witness ==
    /\ pc = "done"
    /\ \E p, q \in 1..Len(out) :
        /\ out[p].k = "block"
        /\ out[q].k = "block"
        /\ out[p].name > out[q].name
        /\ listing[out[p].name].mtime > listing[out[q].name].mtime
        /\ out[p].idx < out[q].idx

BlockShape == <<"block", "modified", "could_not", "dash">>

(* C6 as stated: a file whose decode fails shows only the block with       *)
(* "(Could not extract text)"; no other line is printed for it.            *)
C6_FailureShowsOnlyCouldNot ==
    \A p \in 1..Len(out) :
        (out[p].k = "block" /\ ~Extracted(out[p].name).ok)
            => Kinds(LinesOfBlock(out[p].idx)) = BlockShape

(* C6 as amended: a file whose decode fails shows the block with           *)
(* "(Could not extract text)" and no Length line; when the failure was an  *)
(* exception, one "Error reading" line precedes the block, and no other    *)
(* line is printed for the file.                                           *)
C6_FailureShowsCouldNotAndErrorLine ==
    \A p \in 1..Len(out) :
        (out[p].k = "block" /\ ~Extracted(out[p].name).ok)
            => Kinds(LinesOfBlock(out[p].idx)) =
                   (IF Extracted(out[p].name).err # "" THEN <<"error">> ELSE <<>>)
                   \o BlockShape

C6_Witness ==
    /\ pc = "done"
    /\ \E p, q \in 1..Len(out) :
        /\ out[p].k = "block"
        /\ listing[out[p].name].file.kind = "corrupt"
        /\ out[q].k = "error"
        /\ out[q].idx = out[p].idx
        /\ q < p

(* C7: a text longer than 200 characters is shown as its first 200         *)
(* characters followed by "...", a text of at most 200 characters as it    *)
(* is, and the Length line gives the full length in both cases.            *)
C7_DisplayTruncation ==
    \A p \in 1..Len(out) :
        out[p].k = "content" =>
            LET s == Extracted(out[p].name).s
            IN  /\ Len(s) > DisplayMax =>
                       out[p].s = SubSeq(s, 1, DisplayMax) \o <<".", ".", ".">>
                /\ Len(s) <= DisplayMax => out[p].s = s
                /\ \E q \in 1..Len(out) :
                       /\ out[q].k = "length"
                       /\ out[q].idx = out[p].idx
                       /\ out[q].n = Len(s)

C7_Witness ==
    /\ \E p \in 1..Len(out) :
        /\ out[p].k = "content"
        /\ Len(Extracted(out[p].name).s) > DisplayMax
        /\ Len(out[p].s) = DisplayMax + 3
    /\ \E p \in 1..Len(out) :
        /\ out[p].k = "content"
        /\ Len(Extracted(out[p].name).s) = DisplayMax

(* C8: a missing directory, a path that is no directory and a directory    *)
(* without *.data files end the run before any per-file work (no header,   *)
(* no stat, no open, no block), and nothing else ends the run before       *)
(* every enumerated file was processed.                                    *)
C8_OnlyDirectoryErrorsEndTheRun ==
    Ended =>
        /\ DirectoryError =>
               /\ statted = {}
               /\ opened = {}
               /\ \A p \in 1..Len(out) :
                      out[p].k \in {"error_not_found", "usage", "default_dir",
                                    "error_not_dir", "no_files"}
        /\ (opened # Enumerated \/ Len(LinesOfKind("block")) # Len(Glob(listing)))
               => DirectoryError

(* C10: a block has a Length line exactly when the decoder returned a      *)
(* non-empty string and the "(Could not extract text)" line exactly when   *)
(* it did not, so a reference that resolves to the empty string is shown   *)
(* as a failure; each block has exactly one of the two forms.              *)
C10_LengthIffNonEmptyText ==
    \A p \in 1..Len(out) :
        out[p].k = "block" =>
            LET r == Extracted(out[p].name)
                nonEmpty == r.ok /\ r.s # <<>>
                kinds == Kinds(SelectSeq(LinesOfBlock(out[p].idx),
                                         LAMBDA l : l.k # "error"))
            IN  /\ nonEmpty => kinds = <<"block", "modified", "length", "content", "dash">>
                /\ ~nonEmpty => kinds = BlockShape

C10_Witness ==
    \E p \in 1..Len(out) :
        /\ out[p].k = "block"
        /\ Extracted(out[p].name).ok
        /\ Extracted(out[p].name).s = <<>>
        /\ \E q \in 1..Len(out) : out[q].k = "could_not" /\ out[q].idx = out[p].idx

====
